---------------------------- MODULE Spec2Model ----------------------------
(***************************************************************************)
(* Model of phantominator's analytic k-space synthesis                     *)
(* (phantominator/kspace.py).                                              *)
(*                                                                         *)
(* Number representation.  A real number v is the integer round(v * One);  *)
(* products and quotients are rounded to the nearest integer, ties away    *)
(* from zero (so that -(x*y) = (-x)*y, as for IEEE floats).  An angle is   *)
(* an integer number of quarter turns (pi/2 rad), so cos and sin are       *)
(* exact.  A complex number is a record [tag, re, im]; tag "nan" is the    *)
(* value nan+nanj, tag "uninit" a cell of np.empty never written.          *)
(* Sample coordinates and ellipse centres lie on the coordinate axes, so   *)
(* abs() and angle() are exact as well.                                    *)
(*                                                                         *)
(* The library calls have the meaning of the NumPy the package declares    *)
(* (numpy 1.17: np.complex is complex, np.linspace accepts a float count). *)
(* The caller passes the table E; exceptions are named as the code raises  *)
(* them.                                                                   *)
(***************************************************************************)
EXTENDS Integers, Sequences, FiniteSets, TLC

(***************************************************************************)
(* Bounds of the model.                                                    *)
(***************************************************************************)
MaxRows == 2

MaxSamples == 2

(***************************************************************************)
(* Fixed-point arithmetic.                                                 *)
(***************************************************************************)
One == 1000

tau == 6283

\* Optional values: None, or Some(x)
None == << >>

Some(x) == << x >>

The(o) == o[1]

AbsInt(x) == IF x >= 0 THEN x ELSE -x

\* n / d rounded to the nearest integer, ties away from zero (d > 0).
RDiv(n, d) == IF n >= 0 THEN (2 * n + d) \div (2 * d)
              ELSE -((2 * (-n) + d) \div (2 * d))

Mul(a, b) == RDiv(a * b, One)

\* largest r with r*r <= x
ISqrt(x) == LET RECURSIVE go(_, _)
                go(lo, hi) == IF lo >= hi THEN lo
                              ELSE LET mid == (lo + hi + 1) \div 2
                                   IN  IF mid * mid <= x THEN go(mid, hi)
                                       ELSE go(lo, mid - 1)
            IN  go(0, 46340)

\* np.sqrt of a fixed-point number
Sqrt(v) == ISqrt(v * One)

\* np.cos, np.sin of an angle in quarter turns
Cos(q) == CASE q % 4 = 0 -> One
            [] q % 4 = 1 -> 0
            [] q % 4 = 2 -> -One
            [] q % 4 = 3 -> 0

Sin(q) == CASE q % 4 = 0 -> 0
            [] q % 4 = 1 -> One
            [] q % 4 = 2 -> 0
            [] q % 4 = 3 -> -One

(***************************************************************************)
(* Complex numbers.                                                        *)
(***************************************************************************)
C(re, im) == [tag |-> "num", re |-> re, im |-> im]

NaN == [tag |-> "nan", re |-> 0, im |-> 0]

Uninit == [tag |-> "uninit", re |-> 0, im |-> 0]

CZero == C(0, 0)

IsNum(z) == z.tag = "num"

CAdd(a, b) == IF IsNum(a) /\ IsNum(b) THEN C(a.re + b.re, a.im + b.im)
              ELSE IF a.tag = "uninit" \/ b.tag = "uninit" THEN Uninit
              ELSE NaN

CMul(a, b) == IF IsNum(a) /\ IsNum(b)
              THEN C(RDiv(a.re * b.re - a.im * b.im, One),
                     RDiv(a.re * b.im + a.im * b.re, One))
              ELSE IF a.tag = "uninit" \/ b.tag = "uninit" THEN Uninit
              ELSE NaN

\* complex times real
CScale(r, z) == IF IsNum(z) THEN C(Mul(r, z.re), Mul(r, z.im)) ELSE z

\* complex divided by real; 0/0 is nan (the numerators divided by zero
\* in this program are always zero, see _kspace_ellipse)
CDivReal(z, r) == IF ~IsNum(z) THEN z
                  ELSE IF r = 0 THEN NaN
                  ELSE C(RDiv(z.re * One, AbsInt(r)) * (IF r > 0 THEN 1 ELSE -1),
                         RDiv(z.im * One, AbsInt(r)) * (IF r > 0 THEN 1 ELSE -1))

\* abs() of a complex number
CAbs(z) == ISqrt(z.re * z.re + z.im * z.im)

\* np.angle() in quarter turns, range (-2, 2]; points on the axes only
CAngle(z) == CASE z.im = 0 /\ z.re >= 0 -> 0
               [] z.re = 0 /\ z.im > 0 -> 1
               [] z.im = 0 /\ z.re < 0 -> 2
               [] z.re = 0 /\ z.im < 0 -> -1

\* np.exp(1j*tau*u) for u a multiple of 1/8 (an eighth root of unity)
ExpITau(u) == CASE u % One = 0 -> C(One, 0)
                [] u % One = 125 -> C(707, 707)
                [] u % One = 250 -> C(0, One)
                [] u % One = 375 -> C(-707, 707)
                [] u % One = 500 -> C(-One, 0)
                [] u % One = 625 -> C(-707, -707)
                [] u % One = 750 -> C(0, -One)
                [] u % One = 875 -> C(707, -707)


(***************************************************************************)
(* Bessel function of the first kind, order one: scipy.special.j1 at the   *)
(* fixed-point arguments the model reaches (x in radians * One).           *)
(***************************************************************************)
j1(x) == CASE x = 0 -> 0
           [] x = 786 -> 363
           [] x = 1111 -> 474
           [] x = 1571 -> 567
           [] x = 1756 -> 580
           [] x = 2221 -> 553
           [] x = 3142 -> 284
           [] x = 3238 -> 246
           [] x = 6283 -> -212

(***************************************************************************)
(* Ellipse tables.  A row is <<rho, A, B, xc, yc, alpha>>, alpha in        *)
(* quarter turns.  A table is a sequence of rows of one length; the empty  *)
(* table has six columns.                                                  *)
(***************************************************************************)
NCols(T) == IF T = <<>> THEN 6 ELSE Len(T[1])

NRows(T) == Len(T)

\* mutant: the rotation angle of the ellipse is ignored
Mutant_a_IgnoresAlpha(A, B, theta, alpha) ==
    Sqrt(Mul(Mul(A, A), Mul(Cos(theta), Cos(theta)))
         + Mul(Mul(B, B), Mul(Sin(theta), Sin(theta))))

(***************************************************************************)
(* _a: the direction-dependent effective radius.                           *)
(***************************************************************************)
_a(A, B, theta, alpha) ==
    Sqrt(Mul(Mul(A, A), Mul(Cos(theta - alpha), Cos(theta - alpha)))
         + Mul(Mul(B, B), Mul(Sin(theta - alpha), Sin(theta - alpha))))

\* np.isclose(k, 0): |k| <= atol = 1e-8, which is below the resolution
IsCloseZero(z) == CAbs(z) <= 0

\* mutant: the sign of the density is dropped
MutantRhoABUnsigned(row) == Mul(Mul(AbsInt(row[1]), row[2]), row[3])

\* rho*A*B of one row
RhoAB(row) == Mul(Mul(row[1], row[2]), row[3])

\* mutant: the factor .5 of the limit is missing
MutantOriginValueTau(row) ==
    C(Mul(tau, Mul(Mul(row[1], row[2]), row[3])), 0)

\* line 117: the value written where the sample is (close to) the origin
OriginValue(row) == C(Mul(Mul(One \div 2, tau), RhoAB(row)), 0)

\* lines 120-124: the general formula at a sample away from the origin
GeneralValue(kz, row) ==
    LET kap     == CAbs(kz)
        theta   == CAngle(kz)
        Ec      == C(row[4], row[5])
        t       == CAbs(Ec)
        gamma   == CAngle(Ec)
        athetak == Mul(_a(row[2], row[3], theta, row[6]), kap)
        rotation == ExpITau(-Mul(Mul(kap, t), Cos(gamma - theta)))
    IN  CDivReal(CScale(j1(Mul(tau, athetak)),
                        CScale(RhoAB(row), rotation)),
                 athetak)

\* the transform F(k) of one ellipse at one sample, as _kspace_ellipse
\* leaves it in ret[sample, ellipse]
EllipseCell(kz, row) ==
    IF IsCloseZero(kz) THEN OriginValue(row) ELSE GeneralValue(kz, row)

(***************************************************************************)
(* Coil sensitivity basis (phantominator/sens_coeffs.py): _sens_info()     *)
(* reports the coil capacity and the number of coefficients per coil,      *)
(* _sens_coeffs(cc) is the coefficient vector of coil cc, a deterministic  *)
(* function of the coil index, distinct for distinct coils.                *)
(***************************************************************************)
MAX_COIL == 2

NUM_COEFF == 4

_sens_coeffs(cc) ==
    [n \in 1..NUM_COEFF |-> C(100 * (n + cc), 100 * (cc + 1) * (n - 2))]

(***************************************************************************)
(* MRDataEllipseSinusoidal: the sensitivity-weighted spectrum of one       *)
(* ellipse, for every coil (rows of coeffs) and every sample.              *)
(***************************************************************************)
\* np.linspace(-floor(L/2), floor((L-1)/2), L)[j], j counted from 0
BasisGrid(L, j) == (-(L \div 2) + j) * One

\* mutant: both coordinates run along the same axis of the grid
MutantBasisKxColumn(L, n) == RDiv(BasisGrid(L, n % L), 2)

\* lines 150-154: the basis frequency of coefficient n (counted from 0);
\* meshgrid's first output varies along the second axis
BasisKx(L, n) == RDiv(BasisGrid(L, n \div L), 2)

BasisKy(L, n) == RDiv(BasisGrid(L, n % L), 2)

\* line 160: wu = -tau * Dmat @ Rmat.conj().T @ kxy for one column of kxy,
\* Dmat = diag(d1, d2), Rmat = [[ct, -st], [st, ct]]
Wu(d1, d2, ct, st, sx, sy) ==
    LET m1 == Mul(-tau, d1)
        m2 == Mul(-tau, d2)
    IN  C(Mul(Mul(m1, ct), sx) + Mul(Mul(m1, st), sy),
          Mul(Mul(m2, -st), sx) + Mul(Mul(m2, ct), sy))

\* line 165: the smallest positive number of the representation stands
\* for the threshold 1e-10
BesselEps == 1

\* mutant: every element is taken for big, the ratio is evaluated everywhere
MutantIndBigEverywhere(modw) == TRUE

\* line 165: the mask of the elements that take the ratio J1(m)/m
ind_big(modw) == AbsInt(modw) >= BesselEps

\* lines 164-167: the robust Bessel kernel
Gval(modw) ==
    IF ind_big(modw)
    THEN RDiv(j1(modw) * One, modw)
    ELSE Mul(One \div 2, One - RDiv(Mul(RDiv(modw, 2), RDiv(modw, 2)), 2))

\* lines 144-170 for one coil (a row of coeffs) and one sample
MRDataCell(kz, d1, d2, ct, st, xc, yc, coeff) ==
    LET N == Len(coeff)
        L == ISqrt(N)
        det == Mul(d1, d2)
        term(n) ==
            LET sx == BasisKx(L, n - 1) + kz.re
                sy == BasisKy(L, n - 1) + kz.im
                modw == CAbs(Wu(d1, d2, ct, st, sx, sy))
            IN  CMul(CScale(Mul(tau, det), coeff[n]),
                     CScale(Gval(modw), ExpITau(Mul(xc, sx) + Mul(yc, sy))))
        RECURSIVE acc(_)
        acc(n) == IF n = 0 THEN CZero ELSE CAdd(acc(n - 1), term(n))
    IN  acc(N)

\* lines 131-140: _kspace_ellipse_sens(...)[coil, sample]
SensCell(kz, xc, yc, rho, A, B, theta, coeff) ==
    CScale(rho, MRDataCell(kz, RDiv(B, 2), RDiv(A, 2),
                           Cos(theta), Sin(theta), xc, yc, coeff))

\* lines 87-89: the contribution of table row ii to val[sample, coil]
CoilContribution(kz, row, coeff) ==
    SensCell(kz, RDiv(row[5], 2), -RDiv(row[4], 2), row[1], row[2], row[3],
             row[6], coeff)

(***************************************************************************)
(* The inputs of a call.                                                   *)
(***************************************************************************)
\* <<rho, A, B, xc, yc, alpha>>
\* the disk of density 1 and radius 0.5 at the origin
DiskRow == <<1000, 500, 500, 0, 0, 0>>

\* an ellipse off the origin, and the same ellipse with the density negated
PlusRow == <<1000, 1000, 500, 500, 0, 0>>

MinusRow == <<-1000, 1000, 500, 500, 0, 0>>

\* an ellipse turned by a quarter turn
TurnedRow == <<2000, 500, 1000, 0, -500, 1>>

\* a degenerate record: a zero semi-axis
FlatRow == <<1000, 0, 500, 0, 0, 0>>

EllipseRows == { PlusRow, MinusRow, TurnedRow, FlatRow }

\* well-formed tables of up to MaxRows rows
Tables6 == UNION { [1..n -> EllipseRows] : n \in 0..MaxRows }

\* one-row tables with a column missing or a column too many
Tables5 == { << SubSeq(r, 1, 5) >> : r \in EllipseRows }

Tables7 == { << Append(r, 0) >> : r \in EllipseRows }

Tables == Tables6 \cup Tables5 \cup Tables7 \cup { << DiskRow >> }

\* sample coordinates: the origin, 1 on the real axis, -0.5 on the imaginary
KPointSeq == << C(0, 0), C(1000, 0), C(0, -500) >>

KPoints == { KPointSeq[i] : i \in 1..Len(KPointSeq) }

\* coordinate arrays of up to MaxSamples distinct points, in the order of
\* KPointSeq (every sample is processed independently of the others)
SampleSets ==
    { SelectSeq(KPointSeq, LAMBDA z : z \in S) :
        S \in { T \in SUBSET KPoints : Cardinality(T) <= MaxSamples } }

\* how the coordinates are passed: one complex array, a pair of real
\* arrays, a pair of real arrays of different sizes
CoordModes == {"complex", "pair", "mismatch"}

NcoilValues == {None} \cup { Some(n) : n \in 1..(MAX_COIL + 1) }

Re(ks) == [i \in 1..Len(ks) |-> ks[i].re]

Im(ks) == [i \in 1..Len(ks) |-> ks[i].im]

(***************************************************************************)
(* State of one call of kspace_shepp_logan.                                *)
(***************************************************************************)
VARIABLES
    pc,      \* the line the call is at; "idle", "done", "raised"
    kx,      \* argument kx
    ky,      \* argument ky (None when omitted)
    E,       \* argument E
    ncoil,   \* argument ncoil (None when omitted)
    k,       \* local k: the complex sample coordinates
    coeffs,  \* local coeffs: one coefficient vector per coil
    val,     \* local val[sample][coil]
    ii,      \* number of table rows the coil loop has accumulated
    ret,     \* _kspace_ellipse's buffer ret[sample][ellipse]
    result,  \* the returned value
    err,     \* the exception raised
    stdout,  \* number of lines printed
    clock    \* number of times time() was read

vars == <<pc, kx, ky, E, ncoil, k, coeffs, val, ii, ret, result, err,
          stdout, clock>>

NoError == "none"

\* the exceptions of the code
ShapeAssertion == "AssertionError: kx and ky must be the same size!"

CoilAssertion == "AssertionError: Only MAX_COIL coils possible to simulate!"

IndexError == "IndexError: index out of bounds for axis 1"

UnpackError == "ValueError: wrong number of values to unpack"

\* ct_shepp_logan at rest: no call in progress
CtIdle ==
    [pc |-> "idle", N |-> [scalar |-> TRUE, dims |-> << >>],
     modified |-> TRUE, E |-> None, ret_E |-> FALSE, zlims |-> << >>,
     is2D |-> TRUE, shape |-> << >>, params |-> None, ph |-> None,
     ii |-> 0, result |-> None, err |-> NoError]

\* mr_shepp_logan at rest
MrIdle ==
    [pc |-> "idle", N |-> [scalar |-> TRUE, dims |-> << >>], E |-> << >>,
     B0 |-> 0, T2star |-> FALSE, zlims |-> << >>, shape |-> << >>,
     M0s |-> None, T1s |-> None, T2s |-> None, ii |-> 0, result |-> None,
     err |-> NoError]

\* no array has been built
PreIdle ==
    [pc |-> "idle", heap |-> << >>, ref |-> 0, kind |-> "none", dim |-> 2,
     n0 |-> 0]

(***************************************************************************)
(* The other entry points of the package are modelled each by one record:  *)
(* the frame of a call of ct_shepp_logan, the frame of a call of           *)
(* mr_shepp_logan, and the arrays the preset builders have handed out.     *)
(* Each is at rest while another entry point runs.                         *)
(***************************************************************************)
\* what a caller of kspace_shepp_logan keeps of an earlier call with a coil
\* count: its arguments and the array it returned
PrevNone ==
    [set |-> FALSE, kx |-> << >>, ky |-> None, E |-> << >>, ncoil |-> None,
     result |-> None]

VARIABLES
    ct,      \* the call of ct_shepp_logan
    mr,      \* the call of mr_shepp_logan
    pre,     \* the arrays built by the preset functions, and their users
    prev     \* the earlier call a caller of kspace_shepp_logan remembers

others == <<ct, mr, pre, prev>>

Init ==
    /\ pc = "idle"
    /\ kx = <<>> /\ ky = None /\ E = <<>> /\ ncoil = None
    /\ k = <<>> /\ coeffs = <<>> /\ val = <<>> /\ ii = 0 /\ ret = <<>>
    /\ result = None /\ err = NoError /\ stdout = 0 /\ clock = 0
    /\ ct = CtIdle /\ mr = MrIdle /\ pre = PreIdle /\ prev = PrevNone

\* the caller passes its arguments
Call ==
    /\ pc = "idle"
    /\ \E ks \in SampleSets, mode \in CoordModes, tbl \in Tables,
          nc \in NcoilValues :
          /\ kx' = IF mode = "complex" THEN ks ELSE Re(ks)
          /\ ky' = CASE mode = "complex" -> None
                     [] mode = "pair" -> Some(Im(ks))
                     [] mode = "mismatch" -> Some(Append(Im(ks), 0))
          /\ E' = tbl
          /\ ncoil' = nc
    /\ pc' = "L45"
    /\ UNCHANGED <<k, coeffs, val, ii, ret, result, err, stdout, clock>>
    /\ UNCHANGED others

\* mutant: the sizes of kx and ky are not compared
MutantCoordinatesUnchecked ==
    /\ pc = "L45"
    /\ IF ky = None
       THEN k' = kx
       ELSE k' = [i \in 1..Len(kx) |->
                    C(kx[i], IF i <= Len(The(ky)) THEN The(ky)[i] ELSE 0)]
    /\ pc' = "L61"
    /\ UNCHANGED <<kx, ky, E, ncoil, coeffs, val, ii, ret, result, err,
                   stdout, clock>>
    /\ UNCHANGED others

\* lines 45-51: the complex coordinates
Coordinates ==
    /\ pc = "L45"
    /\ IF ky = None
       THEN k' = kx /\ pc' = "L61" /\ err' = err
       ELSE IF Len(kx) # Len(The(ky))
            THEN k' = k /\ pc' = "raised" /\ err' = ShapeAssertion
            ELSE /\ k' = [i \in 1..Len(kx) |-> C(kx[i], The(ky)[i])]
                 /\ pc' = "L61" /\ err' = err
    /\ UNCHANGED <<kx, ky, E, ncoil, coeffs, val, ii, ret, result, stdout,
                   clock>>
    /\ UNCHANGED others

\* lines 61-68: with a coil count, the six columns are extracted
ExtractParams ==
    /\ pc = "L61"
    /\ ncoil # None
    /\ IF NCols(E) < 6
       THEN pc' = "raised" /\ err' = IndexError
       ELSE pc' = "L70" /\ err' = err
    /\ UNCHANGED <<kx, ky, E, ncoil, k, coeffs, val, ii, ret, result,
                   stdout, clock>>
    /\ UNCHANGED others

\* mutant: the capacity check is strict
MutantSensInfoStrict ==
    /\ pc = "L70"
    /\ IF The(ncoil) < MAX_COIL
       THEN pc' = "L78" /\ err' = err /\ clock' = clock + 1
       ELSE pc' = "raised" /\ err' = CoilAssertion /\ clock' = clock
    /\ coeffs' = <<>>
    /\ UNCHANGED <<kx, ky, E, ncoil, k, val, ii, ret, result, stdout>>
    /\ UNCHANGED others

\* lines 70-77: the capacity check, the clock, the empty coefficient matrix
SensInfo ==
    /\ pc = "L70"
    /\ IF The(ncoil) <= MAX_COIL
       THEN pc' = "L78" /\ err' = err /\ clock' = clock + 1
       ELSE pc' = "raised" /\ err' = CoilAssertion /\ clock' = clock
    /\ coeffs' = <<>>
    /\ UNCHANGED <<kx, ky, E, ncoil, k, val, ii, ret, result, stdout>>
    /\ UNCHANGED others

\* mutant: the rows of the coefficient matrix are filled from the last coil
\* down, so that row c holds the vector of coil ncoil - 1 - c
MutantCoeffIterFromLast ==
    /\ pc = "L78"
    /\ Len(coeffs) < The(ncoil)
    /\ coeffs' = Append(coeffs, _sens_coeffs(The(ncoil) - 1 - Len(coeffs)))
    /\ UNCHANGED <<pc, kx, ky, E, ncoil, k, val, ii, ret, result, err,
                   stdout, clock>>
    /\ UNCHANGED others

\* lines 78-79: one pass of the coefficient loop (cc = Len(coeffs))
CoeffIter ==
    /\ pc = "L78"
    /\ Len(coeffs) < The(ncoil)
    /\ coeffs' = Append(coeffs, _sens_coeffs(Len(coeffs)))
    /\ UNCHANGED <<pc, kx, ky, E, ncoil, k, val, ii, ret, result, err,
                   stdout, clock>>
    /\ UNCHANGED others

\* line 82: val = zeros((k.size, ncoil))
CoeffDone ==
    /\ pc = "L78"
    /\ Len(coeffs) = The(ncoil)
    /\ val' = [s \in 1..Len(k) |-> [c \in 1..The(ncoil) |-> CZero]]
    /\ ii' = 0
    /\ pc' = "L83"
    /\ UNCHANGED <<kx, ky, E, ncoil, k, coeffs, ret, result, err, stdout,
                   clock>>
    /\ UNCHANGED others

\* mutant: the contribution of a row replaces val instead of adding to it
MutantEllipseIterOverwrites ==
    /\ pc = "L83"
    /\ ii < NRows(E)
    /\ val' = [s \in 1..Len(k) |-> [c \in 1..The(ncoil) |->
                 CoilContribution(k[s], E[ii + 1], coeffs[c])]]
    /\ ii' = ii + 1
    /\ UNCHANGED <<pc, kx, ky, E, ncoil, k, coeffs, ret, result, err,
                   stdout, clock>>
    /\ UNCHANGED others

\* mutant: the column count is checked only after the row was accumulated
MutantEllipseIterLateCheck ==
    /\ pc = "L83"
    /\ ii < NRows(E)
    /\ val' = [s \in 1..Len(k) |-> [c \in 1..The(ncoil) |->
                 CAdd(val[s][c], CoilContribution(k[s], E[ii + 1], coeffs[c]))]]
    /\ ii' = ii + 1
    /\ IF NCols(E) # 6
       THEN pc' = "raised" /\ err' = IndexError
       ELSE pc' = pc /\ err' = err
    /\ UNCHANGED <<kx, ky, E, ncoil, k, coeffs, ret, result, stdout, clock>>
    /\ UNCHANGED others

\* lines 83-89: one pass of the ellipse loop, val += contribution of row ii
EllipseIter ==
    /\ pc = "L83"
    /\ ii < NRows(E)
    /\ val' = [s \in 1..Len(k) |-> [c \in 1..The(ncoil) |->
                 CAdd(val[s][c], CoilContribution(k[s], E[ii + 1], coeffs[c]))]]
    /\ ii' = ii + 1
    /\ UNCHANGED <<pc, kx, ky, E, ncoil, k, coeffs, ret, result, err,
                   stdout, clock>>
    /\ UNCHANGED others

\* lines 91-93: the timing line is printed and val returned
PrintReturn ==
    /\ pc = "L83"
    /\ ii = NRows(E)
    /\ stdout' = stdout + 1
    /\ clock' = clock + 1
    /\ result' = Some(val)
    /\ pc' = "done"
    /\ UNCHANGED <<kx, ky, E, ncoil, k, coeffs, val, ii, ret, err>>
    /\ UNCHANGED others

\* mutant: the scaling of line 99 is executed, k /= 2 in place; without ky,
\* k is the caller's array kx
MutantEllipseOriginScalesK ==
    /\ pc = "L61"
    /\ ncoil = None
    /\ k' = [s \in 1..Len(k) |-> C(RDiv(k[s].re, 2), RDiv(k[s].im, 2))]
    /\ kx' = IF ky = None THEN k' ELSE kx
    /\ IF NCols(E) # 6
       THEN pc' = "raised" /\ err' = UnpackError /\ ret' = ret
       ELSE /\ pc' = "L118"
            /\ err' = err
            /\ ret' = [s \in 1..Len(k) |-> [e \in 1..NRows(E) |->
                         IF IsCloseZero(k[s]) THEN OriginValue(E[e])
                         ELSE Uninit]]
    /\ UNCHANGED <<ky, E, ncoil, coeffs, val, ii, result, stdout, clock>>
    /\ UNCHANGED others

\* lines 102, 111-117: without a coil count _kspace_ellipse is entered; the
\* table is unpacked into six columns, ret allocated, and the cells of the
\* samples at the origin are written
EllipseOrigin ==
    /\ pc = "L61"
    /\ ncoil = None
    /\ IF NCols(E) # 6
       THEN pc' = "raised" /\ err' = UnpackError /\ ret' = ret
       ELSE /\ pc' = "L118"
            /\ err' = err
            /\ ret' = [s \in 1..Len(k) |-> [e \in 1..NRows(E) |->
                         IF IsCloseZero(k[s]) THEN OriginValue(E[e])
                         ELSE Uninit]]
    /\ UNCHANGED <<kx, ky, E, ncoil, k, coeffs, val, ii, result, stdout,
                   clock>>
    /\ UNCHANGED others

\* mutant: the general formula is written to every cell, the cells of the
\* samples at the origin included
MutantEllipseGeneralEverywhere ==
    /\ pc = "L118"
    /\ ret' = [s \in 1..Len(k) |-> [e \in 1..NRows(E) |->
                 GeneralValue(k[s], E[e])]]
    /\ pc' = "L102"
    /\ UNCHANGED <<kx, ky, E, ncoil, k, coeffs, val, ii, result, err,
                   stdout, clock>>
    /\ UNCHANGED others

\* lines 118-125: the cells of the other samples are written
EllipseGeneral ==
    /\ pc = "L118"
    /\ ret' = [s \in 1..Len(k) |-> [e \in 1..NRows(E) |->
                 IF ~IsCloseZero(k[s]) THEN GeneralValue(k[s], E[e])
                 ELSE ret[s][e]]]
    /\ pc' = "L102"
    /\ UNCHANGED <<kx, ky, E, ncoil, k, coeffs, val, ii, result, err,
                   stdout, clock>>
    /\ UNCHANGED others

\* mutant: the sum stops one element short
MutantCSumShort(row) ==
    LET RECURSIVE go(_)
        go(i) == IF i = 0 THEN CZero ELSE CAdd(go(i - 1), row[i])
    IN  go(IF Len(row) = 0 THEN 0 ELSE Len(row) - 1)

\* np.sum(row) of complex numbers
CSum(row) == LET RECURSIVE go(_)
                 go(i) == IF i = 0 THEN CZero ELSE CAdd(go(i - 1), row[i])
             IN  go(Len(row))

\* mutant: the last column of ret is returned instead of the sum
MutantSumReturnLast ==
    /\ pc = "L102"
    /\ result' = Some([s \in 1..Len(ret) |->
                         IF ret[s] = <<>> THEN CZero
                         ELSE ret[s][Len(ret[s])]])
    /\ pc' = "done"
    /\ UNCHANGED <<kx, ky, E, ncoil, k, coeffs, val, ii, ret, err, stdout,
                   clock>>
    /\ UNCHANGED others

\* line 102: np.sum(..., axis=-1)
SumReturn ==
    /\ pc = "L102"
    /\ result' = Some([s \in 1..Len(ret) |-> CSum(ret[s])])
    /\ pc' = "done"
    /\ UNCHANGED <<kx, ky, E, ncoil, k, coeffs, val, ii, ret, err, stdout,
                   clock>>
    /\ UNCHANGED others

\* the call is over; the next one starts from a fresh frame
Return ==
    /\ pc \in {"done", "raised"}
    /\ pc' = "idle"
    /\ kx' = <<>> /\ ky' = None /\ E' = <<>> /\ ncoil' = None
    /\ k' = <<>> /\ coeffs' = <<>> /\ val' = <<>> /\ ii' = 0 /\ ret' = <<>>
    /\ result' = None /\ err' = NoError /\ stdout' = 0 /\ clock' = 0
    /\ UNCHANGED others

Next ==
    \/ Call
    \/ Coordinates
    \/ ExtractParams
    \/ SensInfo
    \/ CoeffIter
    \/ CoeffDone
    \/ EllipseIter
    \/ PrintReturn
    \/ EllipseOrigin
    \/ EllipseGeneral
    \/ SumReturn
    \/ Return

Spec == Init /\ [][Next]_vars

(***************************************************************************)
(* kspace_shepp_logan as a function of its arguments.                      *)
(***************************************************************************)
\* the sample coordinates the arguments denote
Samples == IF ky = None THEN kx
           ELSE [i \in 1..Len(kx) |-> C(kx[i], The(ky)[i])]

\* the sum over the rows of T of the transform F(kz) of each row
SumOfEllipses(kz, T) ==
    LET RECURSIVE go(_)
        go(i) == IF i = 0 THEN CZero
                 ELSE CAdd(go(i - 1), EllipseCell(kz, T[i]))
    IN  go(Len(T))

\* the sum over the rows of T of each row's contribution to one coil
SumOfCoilContributions(kz, T, coeff) ==
    LET RECURSIVE go(_)
        go(i) == IF i = 0 THEN CZero
                 ELSE CAdd(go(i - 1), CoilContribution(kz, T[i], coeff))
    IN  go(Len(T))

\* lines 95-102: the value returned without a coil count
KspaceNoCoil(ks, T) == [s \in 1..Len(ks) |-> SumOfEllipses(ks[s], T)]

\* lines 61-93: the value returned with a coil count n
KspaceCoil(ks, T, n) ==
    [s \in 1..Len(ks) |-> [c \in 1..n |->
        SumOfCoilContributions(ks[s], T, _sens_coeffs(c - 1))]]

Kspace(ks, T, nc) == IF nc = None THEN KspaceNoCoil(ks, T)
                     ELSE KspaceCoil(ks, T, The(nc))

\* elementwise sum of two returned values of the same coil argument
ValAdd(v, w, nc) ==
    IF nc = None THEN [s \in 1..Len(v) |-> CAdd(v[s], w[s])]
    ELSE [s \in 1..Len(v) |-> [c \in 1..Len(v[s]) |-> CAdd(v[s][c], w[s][c])]]

\* the entries of a returned value
ValEntries(v, nc) ==
    IF nc = None THEN { v[s] : s \in 1..Len(v) }
    ELSE UNION { { v[s][c] : c \in 1..Len(v[s]) } : s \in 1..Len(v) }

\* a table and a sample set turned by a quarter turn about the origin
TurnRow(row) == <<row[1], row[2], row[3], -row[5], row[4], row[6] + 1>>

TurnTable(T) == [r \in 1..Len(T) |-> TurnRow(T[r])]

TurnSamples(ks) == [s \in 1..Len(ks) |-> C(-ks[s].im, ks[s].re)]

\* the semi-axes of every row are positive
ValidGeometry(T) == \A r \in 1..Len(T) : T[r][2] > 0 /\ T[r][3] > 0

Completed == pc = "done"

\* two real numbers agree to the resolution of the representation
Near(x, y) == AbsInt(x - y) <= 1

(***************************************************************************)
(* C1 (as stated): for a single ellipse, without a coil count, the value   *)
(* at the sample k = 0 is rho*A*B*2*pi.                                     *)
(***************************************************************************)
C1_OriginIsTwoPi ==
    (Completed /\ ncoil = None /\ NRows(E) = 1) =>
        \A s \in 1..Len(k) :
            k[s] = CZero =>
                /\ IsNum(The(result)[s])
                /\ Near(The(result)[s].re, Mul(RhoAB(E[1]), tau))
                /\ The(result)[s].im = 0

(***************************************************************************)
(* C1 (amended): for a single ellipse, without a coil count, the value at  *)
(* the sample k = 0 is rho*A*B*pi, i.e. rho*A*B*tau/2.                      *)
(***************************************************************************)
C1_OriginIsPi ==
    (Completed /\ ncoil = None /\ NRows(E) = 1) =>
        \A s \in 1..Len(k) :
            k[s] = CZero =>
                /\ IsNum(The(result)[s])
                /\ Near(The(result)[s].re, RDiv(Mul(RhoAB(E[1]), tau), 2))
                /\ The(result)[s].im = 0

\* the disk of density 1 and radius 0.5 sampled at the origin: 0.7854
C1_Witness ==
    /\ Completed /\ ncoil = None
    /\ E = << DiskRow >>
    /\ k = << CZero >>
    /\ Near(The(result)[1].re, 785)

(***************************************************************************)
(* C2: without a coil count the call returns one value per sample          *)
(* coordinate, the sum over all rows of the table of the per-ellipse       *)
(* transform F(k); every row contributes exactly once.                     *)
(***************************************************************************)
C2_SumOverEllipses ==
    (Completed /\ ncoil = None) =>
        /\ Len(The(result)) = Len(kx)
        /\ \A s \in 1..Len(kx) :
              The(result)[s] = SumOfEllipses(Samples[s], E)

C2_Witness ==
    /\ Completed /\ ncoil = None
    /\ NRows(E) = 2 /\ E[1] # E[2]
    /\ Len(kx) = 2 /\ Samples[1] # Samples[2]
    /\ The(result)[1] # The(result)[2]
    /\ \A s \in 1..2 : The(result)[s] \notin {CZero, NaN}

(***************************************************************************)
(* C3: with a coil count Nc the call returns one row per sample and one    *)
(* column per coil; entry [s, c] is the sum over all rows of the table of  *)
(* that ellipse's contribution for coil c at sample s.                     *)
(***************************************************************************)
C3_CoilSumOverEllipses ==
    (Completed /\ ncoil # None) =>
        /\ Len(The(result)) = Len(kx)
        /\ \A s \in 1..Len(kx) :
              /\ Len(The(result)[s]) = The(ncoil)
              /\ \A c \in 1..The(ncoil) :
                    The(result)[s][c] =
                        SumOfCoilContributions(Samples[s], E,
                                               _sens_coeffs(c - 1))

C3_Witness ==
    /\ Completed /\ ncoil = Some(2)
    /\ NRows(E) = 2 /\ E[1] # E[2]
    /\ Len(kx) = 2
    /\ The(result)[1][1] # The(result)[1][2]
    /\ The(result)[1][1] # The(result)[2][1]
    /\ \A s \in 1..2 : \A c \in 1..2 : The(result)[s][c] # CZero

(***************************************************************************)
(* C4: linearity.  The value returned for a table is the elementwise sum   *)
(* of the values returned for any two tables it is the concatenation of,   *)
(* for the same samples and the same coil argument.                        *)
(***************************************************************************)
C4_Linearity ==
    Completed =>
        \A i \in 0..NRows(E) :
            The(result) = ValAdd(Kspace(Samples, SubSeq(E, 1, i), ncoil),
                                 Kspace(Samples, SubSeq(E, i + 1, NRows(E)),
                                        ncoil),
                                 ncoil)

C4_Witness ==
    /\ Completed
    /\ NRows(E) = 2 /\ ValidGeometry(E)
    /\ Len(kx) > 0
    /\ \A z \in ValEntries(Kspace(Samples, SubSeq(E, 1, 1), ncoil), ncoil)
               \cup ValEntries(Kspace(Samples, SubSeq(E, 2, 2), ncoil), ncoil)
               \cup ValEntries(The(result), ncoil) : z # CZero

(***************************************************************************)
(* C5: negative-density subtraction.  A table of two ellipses of the same  *)
(* geometry (semi-axes, centre, rotation) with densities rho and -rho      *)
(* gives the zero spectrum at every sample, with and without coils.        *)
(***************************************************************************)
SameGeometry(r1, r2) == \A c \in 2..6 : r1[c] = r2[c]

CancellingPair(T) ==
    /\ NRows(T) = 2
    /\ NCols(T) = 6
    /\ ValidGeometry(T)
    /\ SameGeometry(T[1], T[2])
    /\ T[1][1] = -T[2][1]
    /\ T[1][1] # 0

C5_Cancellation ==
    (Completed /\ CancellingPair(E)) =>
        \A z \in ValEntries(The(result), ncoil) : z = CZero

C5_Witness ==
    /\ Completed /\ CancellingPair(E)
    /\ Len(kx) = 2
    /\ \A s \in 1..2 : Samples[s] # CZero
    /\ \A z \in ValEntries(Kspace(Samples, SubSeq(E, 1, 1), ncoil), ncoil) :
          z # CZero

(***************************************************************************)
(* C6 (as stated): turning every ellipse of the table about the origin     *)
(* (centre and rotation angle) and every sample by the same angle leaves   *)
(* the returned value unchanged, with or without coils.                    *)
(***************************************************************************)
C6_RotationInvariantAlways ==
    (Completed /\ NCols(E) = 6) =>
        The(result) = Kspace(TurnSamples(Samples), TurnTable(E), ncoil)

(***************************************************************************)
(* C6 (amended): without a coil count, turning every ellipse of the table  *)
(* about the origin and every sample by the same angle leaves the returned *)
(* value unchanged.                                                        *)
(***************************************************************************)
C6_RotationInvariantNoCoil ==
    (Completed /\ ncoil = None) =>
        /\ The(result) = KspaceNoCoil(TurnSamples(Samples), TurnTable(E))
        /\ The(result) = KspaceNoCoil(TurnSamples(TurnSamples(Samples)),
                                      TurnTable(TurnTable(E)))

C6_Witness ==
    /\ Completed /\ ncoil = None
    /\ E = << PlusRow, TurnedRow >>
    /\ Len(kx) = 2
    /\ \A s \in 1..2 : Samples[s] # CZero /\ The(result)[s] # CZero
    /\ TurnTable(E) # E

(***************************************************************************)
(* C7: if kx and ky are both given and their shapes differ, the call       *)
(* fails with the shape error and returns no value; if ky is omitted, kx   *)
(* is taken as the complex coordinate array and no size check applies.     *)
(***************************************************************************)
C7_ShapeMismatch ==
    /\ (ky # None /\ Len(kx) # Len(The(ky)) /\ pc # "L45") =>
          pc = "raised" /\ err = ShapeAssertion /\ result = None
    /\ (ky = None /\ pc \notin {"idle", "L45"}) =>
          err # ShapeAssertion /\ k = kx
    /\ err = ShapeAssertion => ky # None /\ Len(kx) # Len(The(ky))

C7_Witness ==
    /\ pc = "raised" /\ err = ShapeAssertion /\ result = None
    /\ ky # None /\ Len(kx) # Len(The(ky))

(***************************************************************************)
(* C8: if the requested coil count exceeds MAX_COIL the call fails, with   *)
(* the capacity error once the coordinates and the table columns have      *)
(* passed, before any coil coefficient is generated and before any ellipse *)
(* is processed; a coil count equal to MAX_COIL is accepted.               *)
(***************************************************************************)
C8_Capacity ==
    /\ (ncoil # None /\ The(ncoil) > MAX_COIL) =>
          /\ coeffs = <<>> /\ val = <<>> /\ ii = 0 /\ result = None
          /\ pc \in {"L45", "L61", "L70", "raised"}
          /\ (/\ pc = "raised"
              /\ (ky = None \/ Len(kx) = Len(The(ky)))
              /\ NCols(E) >= 6) =>
                err = CoilAssertion
    /\ err = CoilAssertion => ncoil # None /\ The(ncoil) > MAX_COIL
    /\ (ncoil = Some(MAX_COIL) /\ pc = "L78") => err = NoError

C8_Witness ==
    /\ pc = "raised" /\ err = CoilAssertion
    /\ ncoil = Some(MAX_COIL + 1)
    /\ coeffs = <<>> /\ ii = 0
    /\ NRows(E) > 0

(***************************************************************************)
(* C9: a table whose column count is not six is rejected, with and without *)
(* a coil count; a table with extra columns is never silently accepted.    *)
(***************************************************************************)
C9_ColumnCountChecked ==
    NCols(E) # 6 => pc \in {"L45", "L61", "raised"}

(***************************************************************************)
(* C10: a table holding a zero or negative semi-axis is rejected during    *)
(* input validation; no call reaches a division by a zero semi-axis, and   *)
(* no NaN is produced.                                                     *)
(***************************************************************************)
C10_DegenerateRejected ==
    /\ ~ValidGeometry(E) => pc \in {"L45", "L61", "raised"}
    /\ Completed => \A z \in ValEntries(The(result), ncoil) : z # NaN

(***************************************************************************)
(* ct_shepp_logan (phantominator/ct_shepp_logan.py).                       *)
(*                                                                         *)
(* A 2D row is <<grey, major, minor, xc, yc, theta>>, a 3D row is          *)
(* <<gray, xaxis, yaxis, zaxis, xc, yc, zc, theta>>; here theta is in      *)
(* radians (times One), as the preset tables give it.  The phantom ph maps *)
(* the index tuple of a pixel or voxel (counted from 1) to its value.      *)
(***************************************************************************)
MaxSize == 3

MaxCtRows == 2

\* np.cos, np.sin at the angles of the tables: 0, +-18 degrees, 2pi/5,
\* pi/2, 3pi/5
CosRad(t) == CASE t = 0 -> One
               [] t = 314 -> 951
               [] t = -314 -> 951
               [] t = 1257 -> 309
               [] t = 1571 -> 0
               [] t = 1885 -> -309

SinRad(t) == CASE t = 0 -> 0
               [] t = 314 -> 309
               [] t = -314 -> -309
               [] t = 1257 -> 951
               [] t = 1571 -> One
               [] t = 1885 -> 951

\* np.linspace(a, b, n)[i], i counted from 0
Linspace(a, b, n, i) == IF n = 1 THEN a ELSE a + RDiv((b - a) * i, n - 1)

\* T with column c replaced by the values col: E[:, c] = col
SetColumn(T, c, col) == [r \in 1..Len(T) |-> [T[r] EXCEPT ![c] = col[r]]]

\* lines 211-219: the original 2D parameters
_shepp_logan_params_2d ==
    LET grey  == <<2000, -980, -20, -20, 10, 10, 10, 10, 10, 10>>
        major == <<690, 662, 110, 160, 210, 46, 46, 46, 23, 23>>
        minor == <<920, 874, 310, 410, 250, 46, 46, 23, 23, 46>>
        xs    == <<0, 0, 220, -220, 0, 0, 0, -80, 0, 60>>
        ys    == <<0, -18, 0, 0, 350, 100, -100, -605, -605, -605>>
        theta == <<0, 0, -314, 314, 0, 0, 0, 0, 0, 0>>
    IN  [r \in 1..10 |->
            <<grey[r], major[r], minor[r], xs[r], ys[r], theta[r]>>]

\* lines 230, 265: the grey values of the modified phantoms
ModifiedGrey == <<1000, -800, -200, -200, 100, 100, 100, 100, 100, 100>>

\* lines 229-231
_modified_shepp_logan_params_2d ==
    SetColumn(_shepp_logan_params_2d, 1, ModifiedGrey)

\* lines 242-254: the original 3D parameters
_shepp_logan_params_3d ==
    << <<2000, 690, 920, 900, 0, 0, 0, 0>>,
       <<-800, 662, 874, 880, 0, 0, 0, 0>>,
       <<-200, 410, 160, 210, -220, 0, -250, 1885>>,
       <<-200, 310, 110, 220, 220, 0, -250, 1257>>,
       <<200, 210, 250, 500, 0, 350, -250, 0>>,
       <<200, 46, 46, 46, 0, 100, -250, 0>>,
       <<100, 46, 23, 20, -80, -650, -250, 0>>,
       <<100, 46, 23, 20, 60, -650, -250, 1571>>,
       <<200, 56, 40, 100, 60, -105, 625, 1571>>,
       <<-200, 56, 56, 100, 0, 100, 625, 0>> >>

\* lines 264-266
_modified_shepp_logan_params_3d ==
    SetColumn(_shepp_logan_params_3d, 1, ModifiedGrey)

\* the index tuples of an array of the given shape
CtVoxels(shape) ==
    IF Len(shape) = 2 THEN (1..shape[1]) \X (1..shape[2])
    ELSE (1..shape[1]) \X (1..shape[2]) \X (1..shape[3])

\* x**2/a**2 to two decimals; a # 0
QuadTerm(x, a) == RDiv(x * x * 100, a * a)

\* lines 122-124, 135-137: pixel p of an (M, N) phantom lies inside the
\* ellipse of the row; a division by a zero semi-axis gives inf or nan, and
\* the comparison with 1 is then False
Inside2d(shape, p, row) ==
    LET X   == Linspace(-One, One, shape[2], p[2] - 1)
        Y   == Linspace(-One, One, shape[1], p[1] - 1)
        ct0 == CosRad(row[6])
        st0 == SinRad(row[6])
        u   == Mul(X - row[4], ct0) + Mul(Y - row[5], st0)
        v   == Mul(X - row[4], st0) - Mul(Y - row[5], ct0)
    IN  /\ row[2] # 0
        /\ row[3] # 0
        /\ QuadTerm(u, row[2]) + QuadTerm(v, row[3]) <= 100

\* lines 174-177, 190-193: voxel p of an (L, M, N) phantom lies inside the
\* ellipsoid of the row
Inside3d(shape, zlims, p, row) ==
    LET X   == Linspace(-One, One, shape[2], p[2] - 1)
        Y   == Linspace(-One, One, shape[1], p[1] - 1)
        Z   == Linspace(zlims[1], zlims[2], shape[3], p[3] - 1)
        ct0 == CosRad(row[8])
        st0 == SinRad(row[8])
        u   == Mul(X - row[5], ct0) + Mul(Y - row[6], st0)
        v   == Mul(X - row[5], st0) - Mul(Y - row[6], ct0)
        w   == Z - row[7]
    IN  /\ row[2] # 0
        /\ row[3] # 0
        /\ row[4] # 0
        /\ QuadTerm(u, row[2]) + QuadTerm(v, row[3]) + QuadTerm(w, row[4])
              <= 100

\* the exceptions of ct_shepp_logan
DimensionError == "ValueError: Dimension must be scalar, 2D, or 3D!"

ZlimsLenAssertion == "AssertionError: zlims must be a tuple with 2 entries"

ZlimsOrderAssertion == "AssertionError: zlims: lower bound must be first entry!"

(***************************************************************************)
(* The inputs of a call of ct_shepp_logan.                                 *)
(***************************************************************************)
\* an ellipse covering the whole field of view
CtBig2 == <<1000, 1500, 1500, 0, 0, 0>>

\* a turned ellipse of negative density about the corner (-1, -1)
CtCorner2 == <<-500, 500, 250, -1000, -1000, 1571>>

\* a row with a zero semi-axis
CtFlat2 == <<250, 0, 500, 0, 0, 0>>

\* an ellipsoid covering the whole field of view
CtBig3 == <<1000, 2000, 2000, 2000, 0, 0, 0, 0>>

\* a turned ellipsoid of negative density about the edge point (-1, 0, -1)
CtCorner3 == <<-500, 500, 250, 500, -1000, 0, -1000, 1571>>

CtRows2 == { CtBig2, CtCorner2, CtFlat2 }

CtRows3 == { CtBig3, CtCorner3 }

\* argument E: omitted, or a table of up to MaxCtRows rows
CtTables ==
    {None}
    \cup { Some(T) : T \in UNION { [1..n -> CtRows2] : n \in 0..MaxCtRows } }
    \cup { Some(T) : T \in UNION { [1..n -> CtRows3] : n \in 1..MaxCtRows } }

CtSizes == {1, MaxSize}

\* argument N: a scalar, or a sequence of 0 to 4 sizes
CtSizeArgs ==
    { [scalar |-> TRUE, dims |-> <<n>>] : n \in CtSizes }
    \cup { [scalar |-> FALSE, dims |-> d] :
             d \in [1..2 -> CtSizes] \cup [1..3 -> CtSizes] }
    \cup { [scalar |-> FALSE, dims |-> d] :
             d \in {<< >>} \cup { <<n>> : n \in CtSizes }
                   \cup { <<n, n, n, n>> : n \in CtSizes } }

\* the arguments of the calls explored
CtArgs ==
    [N : CtSizeArgs, modified : BOOLEAN, E : CtTables, ret_E : BOOLEAN,
     zlims : { <<-One, One>> }]
    \cup [N : CtSizeArgs, modified : {TRUE}, E : CtTables, ret_E : {FALSE},
          zlims : { <<One, -One>>, <<0>> }]

(***************************************************************************)
(* The steps of a call of ct_shepp_logan.                                  *)
(***************************************************************************)
CtCall ==
    /\ pc = "idle" /\ ct.pc = "idle" /\ mr.pc = "idle" /\ pre.pc = "idle"
    /\ \E a \in CtArgs :
          ct' = [CtIdle EXCEPT !.pc = "L85", !.N = a.N,
                               !.modified = a.modified, !.E = a.E,
                               !.ret_E = a.ret_E, !.zlims = a.zlims]
    /\ UNCHANGED <<vars, mr, pre, prev>>

\* mutant: any sequence that is not of length 2 is taken as (L, M, N)
MutantCtDispatchNoElse ==
    /\ ct.pc = "L85"
    /\ LET d == ct.N.dims
       IN  IF ct.N.scalar
           THEN ct' = [ct EXCEPT !.shape = <<d[1], d[1]>>, !.is2D = TRUE,
                                 !.pc = "L107"]
           ELSE IF Len(d) = 2
           THEN ct' = [ct EXCEPT !.shape = d, !.is2D = TRUE, !.pc = "L107"]
           ELSE ct' = [ct EXCEPT !.shape = d, !.is2D = FALSE, !.pc = "L150"]
    /\ UNCHANGED <<vars, mr, pre, prev>>

\* lines 85-101: the size of the phantom
CtDispatch ==
    /\ ct.pc = "L85"
    /\ LET d == ct.N.dims
       IN  IF ct.N.scalar
           THEN ct' = [ct EXCEPT !.shape = <<d[1], d[1]>>, !.is2D = TRUE,
                                 !.pc = "L107"]
           ELSE IF Len(d) = 2
           THEN ct' = [ct EXCEPT !.shape = d, !.is2D = TRUE, !.pc = "L107"]
           ELSE IF Len(d) = 3
           THEN ct' = [ct EXCEPT !.shape = d, !.is2D = FALSE, !.pc = "L150"]
           ELSE ct' = [ct EXCEPT !.pc = "raised", !.err = DimensionError]
    /\ UNCHANGED <<vars, mr, pre, prev>>

\* lines 107-127: the table in use, its six columns, the empty phantom
CtParams2d ==
    /\ ct.pc = "L107"
    /\ LET T == IF ct.E # None THEN The(ct.E)
                ELSE IF ct.modified THEN _modified_shepp_logan_params_2d
                ELSE _shepp_logan_params_2d
       IN  IF NCols(T) < 6
           THEN ct' = [ct EXCEPT !.pc = "raised", !.err = IndexError,
                                 !.params = Some(T)]
           ELSE ct' = [ct EXCEPT !.pc = "L129", !.params = Some(T),
                                 !.ph = Some([p \in CtVoxels(ct.shape) |-> 0]),
                                 !.ii = 0]
    /\ UNCHANGED <<vars, mr, pre, prev>>

\* mutant: the grey value of a row replaces the pixel instead of adding
MutantCtEllipse2dAssigns ==
    /\ ct.pc = "L129"
    /\ ct.ii < NRows(The(ct.params))
    /\ LET row == The(ct.params)[ct.ii + 1]
           ph  == The(ct.ph)
       IN  ct' = [ct EXCEPT
                    !.ph = Some([p \in DOMAIN ph |->
                                   IF Inside2d(ct.shape, p, row)
                                   THEN row[1] ELSE ph[p]]),
                    !.ii = ct.ii + 1]
    /\ UNCHANGED <<vars, mr, pre, prev>>

\* lines 129-140: one pass of the loop, ph[idx] += grey[ii]
CtEllipse2d ==
    /\ ct.pc = "L129"
    /\ ct.ii < NRows(The(ct.params))
    /\ LET row == The(ct.params)[ct.ii + 1]
           ph  == The(ct.ph)
       IN  ct' = [ct EXCEPT
                    !.ph = Some([p \in DOMAIN ph |->
                                   IF Inside2d(ct.shape, p, row)
                                   THEN ph[p] + row[1] ELSE ph[p]]),
                    !.ii = ct.ii + 1]
    /\ UNCHANGED <<vars, mr, pre, prev>>

\* lines 142-144
CtReturn2d ==
    /\ ct.pc = "L129"
    /\ ct.ii = NRows(The(ct.params))
    /\ ct' = [ct EXCEPT
                !.result = Some([ph |-> The(ct.ph),
                                 E |-> IF ct.ret_E THEN ct.params ELSE None]),
                !.pc = "done"]
    /\ UNCHANGED <<vars, mr, pre, prev>>

\* lines 150-154: the bounds along z
CtZlims ==
    /\ ct.pc = "L150"
    /\ IF Len(ct.zlims) # 2
       THEN ct' = [ct EXCEPT !.pc = "raised", !.err = ZlimsLenAssertion]
       ELSE IF ct.zlims[1] > ct.zlims[2]
       THEN ct' = [ct EXCEPT !.pc = "raised", !.err = ZlimsOrderAssertion]
       ELSE ct' = [ct EXCEPT !.pc = "L157"]
    /\ UNCHANGED <<vars, mr, pre, prev>>

\* lines 157-180: the table in use, its eight columns, the empty phantom
CtParams3d ==
    /\ ct.pc = "L157"
    /\ LET T == IF ct.E # None THEN The(ct.E)
                ELSE IF ct.modified THEN _modified_shepp_logan_params_3d
                ELSE _shepp_logan_params_3d
       IN  IF NCols(T) < 8
           THEN ct' = [ct EXCEPT !.pc = "raised", !.err = IndexError,
                                 !.params = Some(T)]
           ELSE ct' = [ct EXCEPT !.pc = "L183", !.params = Some(T),
                                 !.ph = Some([p \in CtVoxels(ct.shape) |-> 0]),
                                 !.ii = 0]
    /\ UNCHANGED <<vars, mr, pre, prev>>

\* lines 183-196: one pass of the loop, ph[idx] += gray[ii]
CtEllipse3d ==
    /\ ct.pc = "L183"
    /\ ct.ii < NRows(The(ct.params))
    /\ LET row == The(ct.params)[ct.ii + 1]
           ph  == The(ct.ph)
       IN  ct' = [ct EXCEPT
                    !.ph = Some([p \in DOMAIN ph |->
                                   IF Inside3d(ct.shape, ct.zlims, p, row)
                                   THEN ph[p] + row[1] ELSE ph[p]]),
                    !.ii = ct.ii + 1]
    /\ UNCHANGED <<vars, mr, pre, prev>>

\* lines 198-200
CtReturn3d ==
    /\ ct.pc = "L183"
    /\ ct.ii = NRows(The(ct.params))
    /\ ct' = [ct EXCEPT
                !.result = Some([ph |-> The(ct.ph),
                                 E |-> IF ct.ret_E THEN ct.params ELSE None]),
                !.pc = "done"]
    /\ UNCHANGED <<vars, mr, pre, prev>>

\* the call is over
CtReturn ==
    /\ ct.pc \in {"done", "raised"}
    /\ ct' = CtIdle
    /\ UNCHANGED <<vars, mr, pre, prev>>

NextCT ==
    \/ CtCall
    \/ CtDispatch
    \/ CtParams2d
    \/ CtEllipse2d
    \/ CtReturn2d
    \/ CtZlims
    \/ CtParams3d
    \/ CtEllipse3d
    \/ CtReturn3d
    \/ CtReturn

SpecCT == Init /\ [][NextCT]_<<vars, ct, mr, pre, prev>>

\* ct_shepp_logan's phantom as a function of the table: the value of pixel
\* (voxel) p after the rows of T, each adding its density where it contains p
CtInside(p, row) ==
    IF ct.is2D THEN Inside2d(ct.shape, p, row)
    ELSE Inside3d(ct.shape, ct.zlims, p, row)

SumOfDensities(p, T) ==
    LET RECURSIVE go(_)
        go(i) == IF i = 0 THEN 0
                 ELSE go(i - 1) + (IF CtInside(p, T[i]) THEN T[i][1] ELSE 0)
    IN  go(Len(T))

CtCompleted == ct.pc = "done"

(***************************************************************************)
(* C11: ct_shepp_logan dispatches on N: a scalar gives a 2D phantom of     *)
(* shape (N, N), a sequence of length 2 a 2D phantom of shape (M, N), a    *)
(* sequence of length 3 a 3D phantom of shape (L, M, N); a sequence of any *)
(* other length raises 'Dimension must be scalar, 2D, or 3D!' before any   *)
(* table is selected and before any pixel is computed.                     *)
(***************************************************************************)
C11_Dispatch ==
    LET d == ct.N.dims
    IN  /\ (ct.pc \notin {"idle", "L85"} /\ ct.N.scalar) =>
              ct.shape = <<d[1], d[1]>> /\ ct.is2D /\ ct.err # DimensionError
        /\ (ct.pc \notin {"idle", "L85"} /\ ~ct.N.scalar /\ Len(d) = 2) =>
              ct.shape = d /\ ct.is2D /\ ct.err # DimensionError
        /\ (ct.pc \notin {"idle", "L85"} /\ ~ct.N.scalar /\ Len(d) = 3) =>
              ct.shape = d /\ ~ct.is2D /\ ct.err # DimensionError
        /\ (ct.pc \notin {"idle", "L85"} /\ ~ct.N.scalar
              /\ Len(d) \notin {2, 3}) =>
              /\ ct.pc = "raised" /\ ct.err = DimensionError
              /\ ct.params = None /\ ct.ph = None /\ ct.result = None
        /\ CtCompleted =>
              DOMAIN The(ct.result).ph = CtVoxels(ct.shape)

C11_Witness ==
    /\ ct.pc = "raised" /\ ct.err = DimensionError
    /\ Len(ct.N.dims) = 4
    /\ ct.E # None /\ NRows(The(ct.E)) > 0
    /\ ct.ph = None

\* the first per-ellipse contribution has been computed
ComputeStarted ==
    \/ pc = "L83" /\ ii > 0
    \/ pc \in {"L118", "L102"}
    \/ pc = "done" /\ (NRows(E) > 0 \/ ncoil = None)

\* the number of steps the call still has to take once it computes
StepsLeft ==
    CASE pc = "L83" -> 1 + NRows(E) - ii
      [] pc = "L118" -> 2
      [] pc = "L102" -> 1
      [] OTHER -> 0

(***************************************************************************)
(* C12: fail-fast ordering.  Every failure of kspace_shepp_logan (the      *)
(* coordinate shapes, the table columns, the coil capacity) happens before *)
(* the first per-ellipse contribution is computed; once the first          *)
(* contribution has been accumulated the call completes with a value: no   *)
(* step fails, and each step brings the return one step nearer.            *)
(***************************************************************************)
C12_FailFast ==
    /\ [](ComputeStarted =>
            /\ err = NoError /\ pc # "raised"
            /\ \/ Completed /\ result # None
               \/ ~Completed /\ StepsLeft >= 1)
    /\ [][pc' = "raised" =>
            /\ pc \in {"L45", "L61", "L70"}
            /\ ii = 0 /\ val = << >> /\ ret = << >>
            /\ val' = << >> /\ ret' = << >>]_vars
    /\ [][(ComputeStarted /\ ~Completed) =>
            /\ ComputeStarted'
            /\ StepsLeft' = StepsLeft - 1]_vars

C12_Witness ==
    /\ pc = "L83" /\ ii = 1 /\ NRows(E) = 2
    /\ Len(k) > 0
    /\ \A s \in 1..Len(k) : \A c \in 1..The(ncoil) : val[s][c] # CZero

(***************************************************************************)
(* C13: kspace_shepp_logan never mutates its inputs.  From the call to its *)
(* end, successful or failing, with or without coils, the arrays passed as *)
(* kx, ky and E hold the values they were passed with (without ky, the     *)
(* local k is the caller's array kx itself).                               *)
(***************************************************************************)
C13_InputsUntouched ==
    [][pc = "idle" \/ pc' = "idle" \/ (kx' = kx /\ ky' = ky /\ E' = E)]_vars

C13_Witness ==
    /\ Completed
    /\ ky = None /\ Len(kx) = 2 /\ k = kx
    /\ ncoil = None
    /\ NRows(E) = 2
    /\ \E s \in 1..2 : kx[s] # CZero

(***************************************************************************)
(* C14: every call of kspace_shepp_logan, with or without a coil count, is *)
(* pure: it writes nothing to any output stream and reads no state outside *)
(* its arguments (such as a clock).                                        *)
(***************************************************************************)
C14_Pure == stdout = 0 /\ clock = 0

(***************************************************************************)
(* The preset builders (ct_shepp_logan.py, lines 202-266) and the arrays   *)
(* they hand out.  pre.heap lists the arrays built so far, each with the   *)
(* dimension of its builder; an array stays with the caller that received  *)
(* it (kspace_shepp_logan and ct_shepp_logan with E omitted use it, with   *)
(* ret_E it is passed on), who may write to it.                            *)
(***************************************************************************)
MaxArrays == 3

PreDims == {2, 3}

\* the values the original builder of dimension d fills in
OriginalParams(d) ==
    IF d = 2 THEN _shepp_logan_params_2d ELSE _shepp_logan_params_3d

\* mutant: the builder keeps its table and hands out the same array again
MutantBuildCached(heap, d) ==
    IF \E i \in 1..Len(heap) : heap[i].dim = d
    THEN [heap |-> heap,
          ref |-> CHOOSE i \in 1..Len(heap) :
                     /\ heap[i].dim = d
                     /\ \A j \in 1..(i - 1) : heap[j].dim # d]
    ELSE [heap |-> Append(heap, [dim |-> d, val |-> OriginalParams(d)]),
          ref |-> Len(heap) + 1]

\* lines 211-219, 242-254: E = np.zeros(...) is a new array, filled with
\* the tabulated values; the builder returns a reference to it
Build(heap, d) ==
    [heap |-> Append(heap, [dim |-> d, val |-> OriginalParams(d)]),
     ref |-> Len(heap) + 1]

\* a caller asks for the original parameters (kspace.py line 58,
\* ct_shepp_logan.py lines 111, 161)
PreOriginal ==
    /\ pc = "idle" /\ ct.pc = "idle" /\ mr.pc = "idle"
    /\ pre.pc = "idle"
    /\ Len(pre.heap) < MaxArrays
    /\ \E d \in PreDims :
          LET b == Build(pre.heap, d)
          IN  pre' = [pre EXCEPT !.pc = "returned", !.heap = b.heap,
                                 !.ref = b.ref, !.kind = "original",
                                 !.dim = d, !.n0 = Len(pre.heap)]
    /\ UNCHANGED <<vars, ct, mr, prev>>

\* a caller asks for the modified parameters (kspace.py line 56,
\* ct_shepp_logan.py lines 109, 159); lines 229, 264: the builder first
\* asks for the original parameters
PreModifiedEnter ==
    /\ pc = "idle" /\ ct.pc = "idle" /\ mr.pc = "idle"
    /\ pre.pc = "idle"
    /\ Len(pre.heap) < MaxArrays
    /\ \E d \in PreDims :
          LET b == Build(pre.heap, d)
          IN  pre' = [pre EXCEPT !.pc = "L230", !.heap = b.heap,
                                 !.ref = b.ref, !.kind = "modified",
                                 !.dim = d, !.n0 = Len(pre.heap)]
    /\ UNCHANGED <<vars, ct, mr, prev>>

\* lines 230-231, 265-266: the density column of that array is overwritten
\* in place, and the array returned
PreModifiedOverwrite ==
    /\ pre.pc = "L230"
    /\ pre' = [pre EXCEPT
                 !.pc = "returned",
                 !.heap[pre.ref].val = SetColumn(@, 1, ModifiedGrey)]
    /\ UNCHANGED <<vars, ct, mr, prev>>

\* the caller takes the array
PreTaken ==
    /\ pre.pc = "returned"
    /\ pre' = [pre EXCEPT !.pc = "idle"]
    /\ UNCHANGED <<vars, ct, mr, prev>>

\* a caller writes to an array it was handed: its first row is overwritten
PreCallerWrites ==
    /\ pre.pc = "idle"
    /\ \E i \in 1..Len(pre.heap) :
          /\ pre.heap[i].val[1][1] # 7777
          /\ pre' = [pre EXCEPT
                       !.heap[i].val[1] = [c \in 1..Len(@) |-> 7777]]
    /\ UNCHANGED <<vars, ct, mr, prev>>

NextPresets ==
    \/ PreOriginal
    \/ PreModifiedEnter
    \/ PreModifiedOverwrite
    \/ PreTaken
    \/ PreCallerWrites

SpecPresets == Init /\ [][NextPresets]_<<vars, ct, mr, pre, prev>>

\* the array the call in progress returns
Returned == pre.heap[pre.ref].val

(***************************************************************************)
(* C15: the built-in tables are constructed per call.  Each call of a      *)
(* preset function returns a new array; whatever callers, or the builder   *)
(* of the modified preset, have written to the arrays returned before, a   *)
(* call for the original preset returns the original values, and the       *)
(* modified preset differs from the original in the density column only.   *)
(***************************************************************************)
C15_FreshPresets ==
    pre.pc = "returned" =>
        /\ pre.ref = Len(pre.heap)
        /\ pre.ref > pre.n0
        /\ pre.kind = "original" => Returned = OriginalParams(pre.dim)
        /\ pre.kind = "modified" =>
              /\ Len(Returned) = Len(OriginalParams(pre.dim))
              /\ \A r \in 1..Len(Returned) :
                    /\ Len(Returned[r]) = Len(OriginalParams(pre.dim)[r])
                    /\ \A c \in 2..Len(Returned[r]) :
                          Returned[r][c] = OriginalParams(pre.dim)[r][c]
                    /\ Returned[r][1] = ModifiedGrey[r]
              /\ Returned # OriginalParams(pre.dim)

C15_Witness ==
    /\ pre.pc = "returned" /\ pre.kind = "original"
    /\ Len(pre.heap) = 3
    /\ \E i, j \in 1..2 :
          /\ pre.heap[i].dim = pre.dim /\ pre.heap[i].val[1][1] = 7777
          /\ pre.heap[j].dim = pre.dim
          /\ pre.heap[j].val = SetColumn(OriginalParams(pre.dim), 1,
                                         ModifiedGrey)

\* the rows of T in the order given by the permutation f of 1..Len(T)
Permuted(T, f) == [i \in 1..Len(T) |-> T[f[i]]]

\* the orders of the rows of T that are compared: all of them for a short
\* table, every exchange of two rows for a long one
RowOrders(T) ==
    IF Len(T) <= 4 THEN Permutations(1..Len(T))
    ELSE { [i \in 1..Len(T) |-> IF i = a THEN b ELSE IF i = b THEN a ELSE i] :
             a \in 1..Len(T), b \in 1..Len(T) }

(***************************************************************************)
(* C16: additive accumulation in the rasteriser.  After ct_shepp_logan has *)
(* processed the rows of a table, the value of every pixel (voxel) is the  *)
(* sum of the densities of exactly those ellipses (ellipsoids) whose       *)
(* membership test contains it: overlapping regions sum, and the rows in   *)
(* any other order give the same phantom.                                  *)
(***************************************************************************)
C16_AdditiveRaster ==
    /\ ct.pc \in {"L129", "L183"} =>
          \A p \in CtVoxels(ct.shape) :
              The(ct.ph)[p] =
                  SumOfDensities(p, SubSeq(The(ct.params), 1, ct.ii))
    /\ CtCompleted =>
          \A p \in CtVoxels(ct.shape) :
              \A f \in RowOrders(The(ct.params)) :
                  The(ct.result).ph[p] =
                      SumOfDensities(p, Permuted(The(ct.params), f))

C16_Witness ==
    /\ CtCompleted /\ ct.is2D
    /\ The(ct.params) = << CtBig2, CtCorner2 >>
    /\ ct.shape = <<3, 3>>
    /\ The(ct.result).ph[<<1, 1>>] = 500
    /\ The(ct.result).ph[<<2, 2>>] = 1000

\* the per-coil contribution of a row whose parameters reach the kernel as
\* tabled: centre (xc, yc), semi-axes in the order (A, B)
TabledContribution(kz, row, coeff) ==
    CScale(row[1], MRDataCell(kz, RDiv(row[2], 2), RDiv(row[3], 2),
                              Cos(row[6]), Sin(row[6]), row[4], row[5],
                              coeff))

SumOfTabledContributions(kz, T, coeff) ==
    LET RECURSIVE go(_)
        go(i) == IF i = 0 THEN CZero
                 ELSE CAdd(go(i - 1), TabledContribution(kz, T[i], coeff))
    IN  go(Len(T))

(***************************************************************************)
(* C17: no internal coordinate rescaling.  On the coil path each row's     *)
(* parameters reach the per-ellipse kernel as tabled: the centre (xc, yc)  *)
(* enters the phase term unchanged (not halved, swapped or negated) and    *)
(* the semi-axes enter D = diag(semi-axes/2) in the order (A, B); the      *)
(* returned value is the one the kernel gives for the tabled parameters.   *)
(***************************************************************************)
C17_NoRescaling ==
    (Completed /\ ncoil # None /\ NCols(E) = 6) =>
        \A s \in 1..Len(k) : \A c \in 1..The(ncoil) :
            The(result)[s][c] =
                SumOfTabledContributions(k[s], E, _sens_coeffs(c - 1))

(***************************************************************************)
(* mr_shepp_logan (phantominator/mr_shepp_logan.py).  A row is             *)
(* <<xc, yc, zc, a, b, c, theta, M0, A, C, T1, T2, chi>>, theta in radians *)
(* (times One); the column T1 is None where the table holds np.nan.  The   *)
(* caller passes the table E.                                              *)
(***************************************************************************)
MaxMrRows == 2

gamma0 == 267522

Sign(x) == IF x > 0 THEN 1 ELSE IF x < 0 THEN -1 ELSE 0

\* B0**C for the exponents of the tables explored: 0 and 1
Pow(b, c) == CASE c = 0 -> One
               [] c = One -> b

\* lines 127-130: voxel p lies inside the ellipsoid of the row
InsideMr(shape, zlims, p, row) ==
    Inside3d(shape, zlims, p,
             <<0, row[4], row[5], row[6], row[1], row[2], row[3], row[7]>>)

\* lines 143-146 without the sign: the T1 value of a row
T1Value(row, B0) ==
    IF row[11] = None THEN Mul(row[9], Pow(B0, row[10])) ELSE The(row[11])

\* lines 136-140: what a row adds to T2s, sign included
T2Term(row, B0, T2star) ==
    IF T2star
    THEN IF row[12] = 0 THEN 0
         ELSE RDiv(Sign(row[8]) * One * One,
                   RDiv(One * One, row[12])
                     + Mul(gamma0, AbsInt(Mul(B0, row[13]))))
    ELSE Sign(row[8]) * row[12]

\* the exceptions of mr_shepp_logan
MrUnpackError == "ValueError: not enough values to unpack (expected 3)"

\* the whole field of view: scalp, T1 from the model A*B0^C
MrBase == <<0, 0, 0, 2000, 2000, 2000, 0, 800, 324, 1000, None, 70, 0>>

\* a turned ellipsoid about the edge point (-1, 0, -1) with an explicit T1,
\* and the same ellipsoid with the spin density negated
MrPlus ==
    <<-1000, 0, -1000, 500, 250, 500, 1571, 980, 0, 0, Some(4200), 1990, -1>>

MrMinus ==
    <<-1000, 0, -1000, 500, 250, 500, 1571, -980, 0, 0, Some(4200), 1990, -1>>

MrRows == { MrBase, MrPlus, MrMinus }

\* tables of up to MaxMrRows rows, and a table with a column missing
MrTables ==
    UNION { [1..n -> MrRows] : n \in 1..MaxMrRows }
    \cup { << SubSeq(MrBase, 1, 12) >> }

MrSizeArgs ==
    { [scalar |-> TRUE, dims |-> <<n>>] : n \in CtSizes }
    \cup { [scalar |-> FALSE, dims |-> d] :
             d \in [1..3 -> CtSizes] \cup { <<n, n>> : n \in CtSizes } }

MrArgs ==
    [N : MrSizeArgs, E : MrTables, B0 : {3 * One}, T2star : BOOLEAN,
     zlims : { <<-One, One>> }]
    \cup [N : MrSizeArgs, E : MrTables, B0 : {3 * One}, T2star : {FALSE},
          zlims : { <<One, -One>>, <<0>> }]

\* a call in progress
MrFrame(a) ==
    [pc |-> "L71", N |-> a.N, E |-> a.E, B0 |-> a.B0, T2star |-> a.T2star,
     zlims |-> a.zlims, shape |-> << >>, M0s |-> None, T1s |-> None,
     T2s |-> None, ii |-> 0, result |-> None, err |-> NoError]

MrCall ==
    /\ pc = "idle" /\ ct.pc = "idle" /\ pre.pc = "idle"
    /\ mr.pc = "idle"
    /\ \E a \in MrArgs : mr' = MrFrame(a)
    /\ UNCHANGED <<vars, ct, pre, prev>>

\* lines 71-74: the size of the phantom
MrSize ==
    /\ mr.pc = "L71"
    /\ LET d == mr.N.dims
       IN  IF mr.N.scalar
           THEN mr' = [mr EXCEPT !.shape = <<d[1], d[1], d[1]>>, !.pc = "L77"]
           ELSE IF Len(d) = 3
           THEN mr' = [mr EXCEPT !.shape = d, !.pc = "L77"]
           ELSE mr' = [mr EXCEPT !.pc = "raised", !.err = MrUnpackError]
    /\ UNCHANGED <<vars, ct, pre, prev>>

\* lines 77-81: the bounds along z
MrZlims ==
    /\ mr.pc = "L77"
    /\ IF Len(mr.zlims) # 2
       THEN mr' = [mr EXCEPT !.pc = "raised", !.err = ZlimsLenAssertion]
       ELSE IF mr.zlims[1] > mr.zlims[2]
       THEN mr' = [mr EXCEPT !.pc = "raised", !.err = ZlimsOrderAssertion]
       ELSE mr' = [mr EXCEPT !.pc = "L88"]
    /\ UNCHANGED <<vars, ct, pre, prev>>

\* lines 88-112: the thirteen columns, the empty maps
MrParams ==
    /\ mr.pc = "L88"
    /\ IF NCols(mr.E) < 13
       THEN mr' = [mr EXCEPT !.pc = "raised", !.err = IndexError]
       ELSE mr' = [mr EXCEPT
                     !.pc = "L120",
                     !.M0s = Some([p \in CtVoxels(mr.shape) |-> 0]),
                     !.T1s = Some([p \in CtVoxels(mr.shape) |-> 0]),
                     !.T2s = Some([p \in CtVoxels(mr.shape) |-> 0]),
                     !.ii = 0]
    /\ UNCHANGED <<vars, ct, pre, prev>>

\* mutant: T1 and T2 are added whatever the sign of the spin density
MutantMrEllipseUnsigned ==
    /\ mr.pc = "L120"
    /\ mr.ii < NRows(mr.E)
    /\ LET row == mr.E[mr.ii + 1]
           in(p) == InsideMr(mr.shape, mr.zlims, p, row)
       IN  mr' = [mr EXCEPT
                    !.M0s = Some([p \in CtVoxels(mr.shape) |->
                               The(mr.M0s)[p] + (IF in(p) THEN row[8] ELSE 0)]),
                    !.T2s = Some([p \in CtVoxels(mr.shape) |->
                               The(mr.T2s)[p]
                                 + (IF in(p)
                                    THEN AbsInt(T2Term(row, mr.B0, mr.T2star))
                                    ELSE 0)]),
                    !.T1s = Some([p \in CtVoxels(mr.shape) |->
                               The(mr.T1s)[p]
                                 + (IF in(p) THEN T1Value(row, mr.B0)
                                    ELSE 0)]),
                    !.ii = mr.ii + 1]
    /\ UNCHANGED <<vars, ct, pre, prev>>

\* lines 120-146: one pass of the loop
MrEllipse ==
    /\ mr.pc = "L120"
    /\ mr.ii < NRows(mr.E)
    /\ LET row == mr.E[mr.ii + 1]
           in(p) == InsideMr(mr.shape, mr.zlims, p, row)
       IN  mr' = [mr EXCEPT
                    !.M0s = Some([p \in CtVoxels(mr.shape) |->
                               The(mr.M0s)[p] + (IF in(p) THEN row[8] ELSE 0)]),
                    !.T2s = Some([p \in CtVoxels(mr.shape) |->
                               The(mr.T2s)[p]
                                 + (IF in(p) THEN T2Term(row, mr.B0, mr.T2star)
                                    ELSE 0)]),
                    !.T1s = Some([p \in CtVoxels(mr.shape) |->
                               The(mr.T1s)[p]
                                 + (IF in(p)
                                    THEN Sign(row[8]) * T1Value(row, mr.B0)
                                    ELSE 0)]),
                    !.ii = mr.ii + 1]
    /\ UNCHANGED <<vars, ct, pre, prev>>

\* line 148
MrReturnMaps ==
    /\ mr.pc = "L120"
    /\ mr.ii = NRows(mr.E)
    /\ mr' = [mr EXCEPT
                !.result = Some([M0 |-> The(mr.M0s), T1 |-> The(mr.T1s),
                                 T2 |-> The(mr.T2s)]),
                !.pc = "done"]
    /\ UNCHANGED <<vars, ct, pre, prev>>

\* the call is over
MrReturn ==
    /\ mr.pc \in {"done", "raised"}
    /\ mr' = MrIdle
    /\ UNCHANGED <<vars, ct, pre, prev>>

NextMR ==
    \/ MrCall
    \/ MrSize
    \/ MrZlims
    \/ MrParams
    \/ MrEllipse
    \/ MrReturnMaps
    \/ MrReturn

SpecMR == Init /\ [][NextMR]_<<vars, ct, mr, pre, prev>>

\* the maps mr_shepp_logan returns for the table T, at voxel p
MrMapsAt(p, T) ==
    LET RECURSIVE go(_)
        go(i) ==
            IF i = 0 THEN [M0 |-> 0, T1 |-> 0, T2 |-> 0]
            ELSE LET m == go(i - 1)
                 IN  IF InsideMr(mr.shape, mr.zlims, p, T[i])
                     THEN [M0 |-> m.M0 + T[i][8],
                           T1 |-> m.T1 + Sign(T[i][8]) * T1Value(T[i], mr.B0),
                           T2 |-> m.T2 + T2Term(T[i], mr.B0, mr.T2star)]
                     ELSE m
    IN  go(Len(T))

\* T without its rows i and j
WithoutRows(T, i, j) ==
    SelectSeq([n \in 1..Len(T) |-> <<n, T[n]>>],
              LAMBDA e : e[1] # i /\ e[1] # j)

\* two rows of the same geometry and tissue parameters, spin densities +m
\* and -m
MrCancellingRows(r1, r2) ==
    /\ \A c \in (1..13) \ {8} : r1[c] = r2[c]
    /\ r1[8] = -r2[8]
    /\ r1[8] # 0

(***************************************************************************)
(* C18: in mr_shepp_logan a row with negative spin density subtracts its   *)
(* M0, its T1 and its T2 from every voxel it contains, a row with positive *)
(* spin density adds them; two rows of identical geometry and tissue       *)
(* parameters with spin densities +m and -m leave the three maps as they   *)
(* are without the pair.                                                   *)
(***************************************************************************)
C18_SignedAccumulation ==
    /\ (mr.pc = "L120" /\ mr.ii > 0) =>
          LET row == mr.E[mr.ii]
              before == SubSeq(mr.E, 1, mr.ii - 1)
              T1 == T1Value(row, mr.B0)
              T2 == AbsInt(T2Term(row, mr.B0, mr.T2star))
          IN  \A p \in CtVoxels(mr.shape) :
                  LET was == MrMapsAt(p, before)
                  IN  IF ~InsideMr(mr.shape, mr.zlims, p, row)
                      THEN /\ The(mr.M0s)[p] = was.M0
                           /\ The(mr.T1s)[p] = was.T1
                           /\ The(mr.T2s)[p] = was.T2
                      ELSE IF row[8] < 0
                      THEN /\ The(mr.M0s)[p] = was.M0 - AbsInt(row[8])
                           /\ The(mr.T1s)[p] = was.T1 - T1
                           /\ The(mr.T2s)[p] = was.T2 - T2
                      ELSE /\ The(mr.M0s)[p] = was.M0 + row[8]
                           /\ The(mr.T1s)[p] = was.T1 + T1
                           /\ The(mr.T2s)[p] = was.T2 + T2
    /\ mr.pc = "done" =>
          \A i, j \in 1..NRows(mr.E) :
              (i < j /\ MrCancellingRows(mr.E[i], mr.E[j])) =>
                  \A p \in CtVoxels(mr.shape) :
                      LET rest == WithoutRows(mr.E, i, j)
                          m == MrMapsAt(p, [n \in 1..Len(rest) |-> rest[n][2]])
                      IN  /\ The(mr.result).M0[p] = m.M0
                          /\ The(mr.result).T1[p] = m.T1
                          /\ The(mr.result).T2[p] = m.T2

C18_Witness ==
    /\ mr.pc = "done"
    /\ mr.E = << MrPlus, MrMinus >>
    /\ mr.shape = <<3, 3, 3>>
    /\ mr.T2star
    /\ InsideMr(mr.shape, mr.zlims, <<2, 1, 1>>, MrPlus)
    /\ MrMapsAt(<<2, 1, 1>>, << MrPlus >>).T2 > 0
    /\ MrMapsAt(<<2, 1, 1>>, << MrPlus >>).T1 = 4200
    /\ The(mr.result).T1[<<2, 1, 1>>] = 0

(***************************************************************************)
(* The basis frequencies of MRDataEllipseSinusoidal.                       *)
(***************************************************************************)
MaxBasis == 3

\* lines 150-156: the frequency added to the sample coordinate for each of
\* the N coefficient indices
BasisFrequencies(N) ==
    [n \in 1..N |-> <<BasisKx(ISqrt(N), n - 1), BasisKy(ISqrt(N), n - 1)>>]

\* the centred integer grid [-floor(L/2), floor((L-1)/2)], one axis
IntegerGrid(L) == { g * One : g \in (-(L \div 2))..((L - 1) \div 2) }

\* the same grid with every point divided by 2
HalvedGrid(L) == { RDiv(u, 2) : u \in IntegerGrid(L) }

\* f takes each point of G x G exactly once and nothing else
OnceEach(f, G) ==
    /\ \A n \in DOMAIN f : f[n] \in G \X G
    /\ \A p \in G \X G : Cardinality({ n \in DOMAIN f : f[n] = p }) = 1

(***************************************************************************)
(* C19 as stated: the basis frequencies added to each sample coordinate    *)
(* are exactly the L*L points of the centred integer grid                  *)
(* [-floor(L/2), floor((L-1)/2)]^2, L = floor(sqrt(C)), one grid point per *)
(* coefficient index, each used exactly once.                              *)
(***************************************************************************)
C19_IntegerGrid ==
    \A c \in 1..Len(coeffs) :
        OnceEach(BasisFrequencies(Len(coeffs[c])),
                 IntegerGrid(ISqrt(Len(coeffs[c]))))

(***************************************************************************)
(* C19 amended: the basis frequencies are the L*L points of the centred    *)
(* integer grid divided by 2 (lines 153-154), one point per coefficient    *)
(* index, each used exactly once; this for the coefficient vectors of a    *)
(* call and for every square coefficient count up to MaxBasis^2.           *)
(***************************************************************************)
C19_HalvedGrid ==
    /\ \A c \in 1..Len(coeffs) :
           OnceEach(BasisFrequencies(Len(coeffs[c])),
                    HalvedGrid(ISqrt(Len(coeffs[c]))))
    /\ \A L \in 1..MaxBasis : OnceEach(BasisFrequencies(L * L), HalvedGrid(L))

C19_Witness ==
    /\ pc = "L83"
    /\ ii >= 1
    /\ Len(coeffs) = 2
    /\ Len(coeffs[2]) = 4
    /\ BasisFrequencies(Len(coeffs[2]))
         = << <<-500, -500>>, <<-500, 0>>, <<0, -500>>, <<0, 0>> >>
    /\ \E s \in 1..Len(k) : val[s][2] # CZero

\* line 122: the denominator a(theta)*kappa of the general formula
Athetak(kz, row) == Mul(_a(row[2], row[3], CAngle(kz), row[6]), CAbs(kz))

\* the cells of ret
Cells == { <<s, e>> \in (1..Len(k)) \X (1..NRows(E)) : TRUE }

(***************************************************************************)
(* C20: in _kspace_ellipse every (sample, ellipse) cell of the initially   *)
(* uninitialised buffer is written exactly once before the sum: the        *)
(* samples at the origin get the limit value, all other samples the        *)
(* general formula, and for a table with strictly positive semi-axes the   *)
(* general formula is never evaluated with a zero denominator.             *)
(***************************************************************************)
C20_WrittenOnce ==
    /\ [](pc = "L118" =>
            \A c \in Cells :
                ret[c[1]][c[2]] = (IF IsCloseZero(k[c[1]])
                                   THEN OriginValue(E[c[2]]) ELSE Uninit))
    /\ [](pc = "L102" =>
            \A c \in Cells :
                /\ ret[c[1]][c[2]] # Uninit
                /\ ret[c[1]][c[2]] = (IF IsCloseZero(k[c[1]])
                                      THEN OriginValue(E[c[2]])
                                      ELSE GeneralValue(k[c[1]], E[c[2]])))
    /\ []((pc \in {"L118", "L102"} /\ ValidGeometry(E)) =>
            \A c \in Cells :
                ~IsCloseZero(k[c[1]]) =>
                    /\ Athetak(k[c[1]], E[c[2]]) # 0
                    /\ pc = "L102" => ret[c[1]][c[2]].tag = "num")
    /\ [][/\ (pc = "L61" /\ pc' = "L118") => ret = <<>>
          /\ pc = "L118" =>
                /\ pc' = "L102"
                /\ \A c \in Cells :
                       IF ret[c[1]][c[2]] = Uninit
                       THEN ret'[c[1]][c[2]] # Uninit
                       ELSE ret'[c[1]][c[2]] = ret[c[1]][c[2]]
          /\ pc = "L102" => ret' = ret]_vars

C20_Witness ==
    /\ pc = "L102"
    /\ ValidGeometry(E)
    /\ NRows(E) >= 2
    /\ \E s, t \in 1..Len(k) :
           /\ IsCloseZero(k[s])
           /\ ret[s][1] = OriginValue(E[1])
           /\ ret[s][1] # CZero
           /\ ~IsCloseZero(k[t])
           /\ ret[t][2] = GeneralValue(k[t], E[2])
           /\ ret[t][2].tag = "num"
           /\ ret[t][2] # CZero

\* lines 155-161: modw of coefficient index n (of N) and sample kz, for the
\* table row as it is passed on by lines 87-89 and 135-138
Modw(kz, row, N, n) ==
    LET L == ISqrt(N)
    IN  CAbs(Wu(RDiv(row[3], 2), RDiv(row[2], 2), Cos(row[6]), Sin(row[6]),
                BasisKx(L, n - 1) + kz.re, BasisKy(L, n - 1) + kz.im))

\* lines 166-167: the branches evaluated for one element of modw, one per
\* masked assignment
KernelBranches(modw) ==
    (IF ind_big(modw) THEN {"ratio"} ELSE {})
    \cup (IF ~ind_big(modw) THEN {"taylor"} ELSE {})

\* the (sample, row, coil, coefficient index) combinations of a call
KernelPairs ==
    { q \in (1..Len(k)) \X (1..NRows(E)) \X (1..Len(coeffs)) \X (1..NUM_COEFF) :
        q[4] <= Len(coeffs[q[3]]) }

(***************************************************************************)
(* C21: in MRDataEllipseSinusoidal the kernel value G(m) of every (basis   *)
(* frequency, sample) pair is computed by exactly one of two branches:     *)
(* J1(m)/m when m >= 1e-10 and the Taylor fallback 0.5*(1 - (m/2)^2/2)     *)
(* when m < 1e-10; the ratio is never evaluated for m below the threshold, *)
(* in particular never for m = 0.                                          *)
(***************************************************************************)
C21_OneBranch ==
    pc = "L83" =>
        \A q \in KernelPairs :
            LET m == Modw(k[q[1]], E[q[2]], Len(coeffs[q[3]]), q[4])
            IN  /\ Cardinality(KernelBranches(m)) = 1
                /\ "ratio" \in KernelBranches(m) <=> m >= BesselEps
                /\ "taylor" \in KernelBranches(m) <=> m < BesselEps
                /\ m = 0 => KernelBranches(m) = {"taylor"}
                /\ Gval(m) = (IF m >= BesselEps
                              THEN RDiv(j1(m) * One, m)
                              ELSE Mul(One \div 2,
                                       One - RDiv(Mul(RDiv(m, 2),
                                                      RDiv(m, 2)), 2)))

C21_Witness ==
    /\ pc = "L83"
    /\ ii = NRows(E)
    /\ ii >= 1
    /\ \E q, r \in KernelPairs :
           /\ Modw(k[q[1]], E[q[2]], Len(coeffs[q[3]]), q[4]) = 0
           /\ Gval(0) = One \div 2
           /\ E[q[2]][2] > 0 /\ E[q[2]][3] > 0
           /\ Modw(k[r[1]], E[r[2]], Len(coeffs[r[3]]), r[4]) >= BesselEps
           /\ q[1] = r[1]

(***************************************************************************)
(* Two calls of kspace_shepp_logan by one caller: the caller keeps the     *)
(* array a call with a coil count returned and calls again with the same   *)
(* samples and table.                                                      *)
(***************************************************************************)
\* the first call of the caller
CallFirst ==
    /\ ~prev.set
    /\ Call

\* a call with a coil count returns and the caller keeps what it returned
ReturnKept ==
    /\ pc = "done"
    /\ ncoil # None
    /\ ~prev.set
    /\ prev' = [set |-> TRUE, kx |-> kx, ky |-> ky, E |-> E, ncoil |-> ncoil,
                result |-> result]
    /\ pc' = "idle"
    /\ kx' = <<>> /\ ky' = None /\ E' = <<>> /\ ncoil' = None
    /\ k' = <<>> /\ coeffs' = <<>> /\ val' = <<>> /\ ii' = 0 /\ ret' = <<>>
    /\ result' = None /\ err' = NoError /\ stdout' = 0 /\ clock' = 0
    /\ UNCHANGED <<ct, mr, pre>>

\* the caller calls again, same samples and table, any coil count
CallAgain ==
    /\ pc = "idle"
    /\ prev.set
    /\ kx' = prev.kx /\ ky' = prev.ky /\ E' = prev.E
    /\ \E nc \in NcoilValues : ncoil' = nc
    /\ pc' = "L45"
    /\ UNCHANGED <<k, coeffs, val, ii, ret, result, err, stdout, clock>>
    /\ UNCHANGED others

NextColumns ==
    \/ CallFirst
    \/ CallAgain
    \/ Coordinates
    \/ ExtractParams
    \/ SensInfo
    \/ CoeffIter
    \/ CoeffDone
    \/ EllipseIter
    \/ PrintReturn
    \/ EllipseOrigin
    \/ EllipseGeneral
    \/ SumReturn
    \/ ReturnKept
    \/ Return

SpecColumns == Init /\ [][NextColumns]_<<vars, others>>

\* the smaller of two coil counts
MinCount(a, b) == IF a <= b THEN a ELSE b

(***************************************************************************)
(* C22: coil columns are independent of the coil count.  For the same      *)
(* samples and table and two accepted coil counts, column c of the one     *)
(* call equals column c of the other for every coil c both calls have:     *)
(* row c of the coefficient matrix is always the coefficient vector of     *)
(* coil index c.                                                           *)
(***************************************************************************)
C22_ColumnsIndependent ==
    /\ \A c \in 1..Len(coeffs) : coeffs[c] = _sens_coeffs(c - 1)
    /\ (prev.set /\ Completed /\ ncoil # None
          /\ kx = prev.kx /\ ky = prev.ky /\ E = prev.E) =>
          /\ Len(The(result)) = Len(The(prev.result))
          /\ \A s \in 1..Len(The(result)) :
                 \A c \in 1..MinCount(The(ncoil), The(prev.ncoil)) :
                     The(result)[s][c] = The(prev.result)[s][c]

C22_Witness ==
    /\ prev.set /\ Completed
    /\ prev.ncoil = Some(1) /\ ncoil = Some(2)
    /\ kx = prev.kx /\ ky = prev.ky /\ E = prev.E
    /\ NRows(E) = 2
    /\ Len(The(result)) >= 2
    /\ The(result)[2][1] # CZero
    /\ The(result)[2][1] = The(prev.result)[2][1]
    /\ The(result)[2][2] # The(result)[2][1]


=============================================================================
